---- MODULE Spec2Model ----
(***************************************************************************)
(* Model of the chat AI service in src/main.py: the /api/v1/chat and       *)
(* /api/v1/smart-replies handlers, the helper query_huggingface and the    *)
(* request models.  One request is followed from its arrival to its        *)
(* response; the inference service is the environment.                     *)
(*                                                                         *)
(* A Python str is a sequence of one-character strings, so that strip,     *)
(* split, startswith, slicing, lower, len and `in` are computed as Python  *)
(* computes them.  Template literals of the prompts that no code inspects  *)
(* are kept as single elements.                                            *)
(***************************************************************************)
EXTENDS Integers, Sequences, FiniteSets, TLC

VARIABLES endpoint, payload, upstream, locals, response

vars == <<endpoint, payload, upstream, locals, response>>

----------------------------------------------------------------------------
(* Bounds of the model *)

\* longest recent_messages list of a smart-replies request
MaxMessages == 2
\* longest past_user_inputs / generated_responses list of a chat request
MaxTurns == 2
\* most lines of a composed generated text
MaxLines == 2

(* Program constants *)

HTTP_OK == 200
HTTP_INTERNAL_ERROR == 500
ContextWindow == 10
MinSuggestions == 1
MaxSuggestions == 5
MinLength == 3
MaxLength == 100

----------------------------------------------------------------------------
(* Python str methods *)

Whitespace == {" ", "\t", "\n", "\r"}

RECURSIVE lstrip(_)
lstrip(s) == IF s # <<>> /\ Head(s) \in Whitespace THEN lstrip(Tail(s)) ELSE s

RECURSIVE rstrip(_)
rstrip(s) ==
    IF s # <<>> /\ s[Len(s)] \in Whitespace
    THEN rstrip(SubSeq(s, 1, Len(s) - 1))
    ELSE s

strip(s) == rstrip(lstrip(s))

startswith(s, prefix) ==
    Len(prefix) <= Len(s) /\ SubSeq(s, 1, Len(prefix)) = prefix

\* `sub in s`
contains(s, sub) ==
    \E i \in 0..(Len(s) - Len(sub)) : SubSeq(s, i + 1, i + Len(sub)) = sub

UpperCase == <<"A", "B", "C", "D", "E", "F", "G", "H", "I", "J", "K", "L", "M", "N", "O", "P", "Q", "R", "S", "T", "U", "V", "W", "X", "Y", "Z">>
LowerCase == <<"a", "b", "c", "d", "e", "f", "g", "h", "i", "j", "k", "l", "m", "n", "o", "p", "q", "r", "s", "t", "u", "v", "w", "x", "y", "z">>

LowerChar(c) ==
    IF \E i \in 1..Len(UpperCase) : UpperCase[i] = c
    THEN LowerCase[CHOOSE i \in 1..Len(UpperCase) : UpperCase[i] = c]
    ELSE c

lower(s) == [i \in 1..Len(s) |-> LowerChar(s[i])]

RECURSIVE split(_, _)
split(s, sep) ==
    IF \E i \in 1..Len(s) : s[i] = sep
    THEN LET i == CHOOSE k \in 1..Len(s) :
                      s[k] = sep /\ \A j \in 1..(k - 1) : s[j] # sep
         IN  <<SubSeq(s, 1, i - 1)>> \o split(SubSeq(s, i + 1, Len(s)), sep)
    ELSE <<s>>

RECURSIVE join(_, _)
join(parts, sep) ==
    IF parts = <<>> THEN <<>>
    ELSE IF Len(parts) = 1 THEN parts[1]
    ELSE parts[1] \o <<sep>> \o join(Tail(parts), sep)

\* s[-n:]
LastN(s, n) == SubSeq(s, IF Len(s) > n THEN Len(s) - n + 1 ELSE 1, Len(s))

\* s[:n]
FirstN(s, n) == SubSeq(s, 1, IF Len(s) > n THEN n ELSE Len(s))

Min(a, b) == IF a < b THEN a ELSE b

----------------------------------------------------------------------------
(* The inference service and query_huggingface *)

\* A JSON value of a response body.  A list holds its elements in items, a
\* dict holds its entries there; an element that is a dict either has the
\* key "generated_text" or not, and its value is a str or null.
Item(is_dict, has_text, text_is_str, text) ==
    [is_dict |-> is_dict, has_text |-> has_text,
     text_is_str |-> text_is_str, generated_text |-> text]

Json(type, items) == [type |-> type, items |-> items]

NullJson == Json("null", <<>>)

\* bool(value)
Truthy(json) == json.type \in {"list", "dict"} /\ json.items # <<>>

\* isinstance(value, list)
IsList(json) == json.type = "list"

\* What the inference service does with one call: the transport fails, or
\* it answers with a status, a body text and that text's JSON value.
Answer(transport_ok, status_code, text, json) ==
    [transport_ok |-> transport_ok, status_code |-> status_code,
     text |-> text, json |-> json]

NoAnswer == Answer(FALSE, 0, "", NullJson)

Exc(type, status_code, detail) ==
    [type |-> type, status_code |-> status_code, detail |-> detail]

NoExc == Exc("none", 0, <<>>)

HTTPException(status_code, detail) == Exc("HTTPException", status_code, detail)

\* str(e): Starlette renders an HTTPException as "<status>: <detail>"
ExcStr(e) ==
    IF e.type = "HTTPException"
    THEN <<ToString(e.status_code), ": ">> \o e.detail
    ELSE e.detail

Raise(e) == [raised |-> TRUE, exc |-> e, value |-> NullJson]
Return(v) == [raised |-> FALSE, exc |-> NoExc, value |-> v]

query_huggingface(answer) ==
    IF ~answer.transport_ok
    THEN Raise(Exc("ConnectionError", 0, <<"connection failed">>))
    ELSE IF answer.status_code # HTTP_OK
    THEN Raise(HTTPException(answer.status_code,
                             <<"Error from Hugging Face API: ", answer.text>>))
    ELSE IF answer.json.type = "invalid"
    THEN Raise(Exc("JSONDecodeError", 0, <<"Expecting value">>))
    ELSE Return(answer.json)

\* response_data[0].get("generated_text", "").strip()
GeneratedText(json) ==
    LET first == json.items[1] IN
    IF ~first.is_dict
    THEN Raise(Exc("AttributeError", 0, <<"'str' object has no attribute 'get'">>))
    ELSE IF ~first.has_text
    THEN Return(strip(<<>>))
    ELSE IF ~first.text_is_str
    THEN Raise(Exc("AttributeError", 0,
                   <<"'NoneType' object has no attribute 'strip'">>))
    ELSE Return(strip(first.generated_text))

\* The answers the environment gives, for generated texts drawn from texts
FailedAnswers ==
    {NoAnswer}
    \cup {Answer(TRUE, s, t, NullJson) :
             s \in {404, 503}, t \in {"Model is loading", "Not Found"}}
    \cup {Answer(TRUE, HTTP_OK, "<html>", Json("invalid", <<>>))}

MalformedBodies ==
    {NullJson, Json("list", <<>>), Json("dict", <<>>),
     Json("dict", <<Item(FALSE, FALSE, FALSE, <<>>)>>),
     Json("list", <<Item(FALSE, FALSE, FALSE, <<>>)>>),
     Json("list", <<Item(TRUE, FALSE, FALSE, <<>>)>>),
     Json("list", <<Item(TRUE, TRUE, FALSE, <<>>)>>)}

Answers(texts) ==
    FailedAnswers
    \cup {Answer(TRUE, HTTP_OK, "json", j) : j \in MalformedBodies}
    \cup {Answer(TRUE, HTTP_OK, "json", Json("list", <<Item(TRUE, TRUE, TRUE, t)>>)) :
             t \in texts}

----------------------------------------------------------------------------
(* POST /api/v1/chat *)

Utterances == {<<"H", "i">>, <<"H", "o", "w", " ", "a", "r", "e", " ", "y", "o", "u", "?">>}

Histories == UNION {[1..n -> Utterances] : n \in 0..MaxTurns}

\* ChatRequest: two lists of str, defaulting to empty, and a str
ChatRequest ==
    [past_user_inputs : Histories, generated_responses : Histories,
     text : Utterances]

ChatTexts == {<<>>, <<" ", " ", "\n", " ">>, <<" ", "H", "e", "l", "l", "o", "!", "\n">>, <<"I", " ", "a", "m", " ", "f", "i", "n", "e", ".">>}

UserMarker == "<|user|>"
AssistantMarker == "<|assistant|>"
EndOfTurn == "</s>"
Placeholder == <<"I", " ", "a", "m", " ", "n", "o", "t", " ", "s", "u", "r", "e", " ", "h", "o", "w", " ", "t", "o", " ", "r", "e", "s", "p", "o", "n", "d", " ", "t", "o", " ", "t", "h", "a", "t", ".">>

UserBlock(text) == <<UserMarker, "\n">> \o text \o <<EndOfTurn>>
AssistantBlock(text) == <<AssistantMarker, "\n">> \o text \o <<EndOfTurn>>

\* zip(a, b): as many pairs as the shorter list has
zip(a, b) == [i \in 1..Min(Len(a), Len(b)) |-> <<a[i], b[i]>>]

RECURSIVE TurnBlocks(_)
TurnBlocks(pairs) ==
    IF pairs = <<>> THEN <<>>
    ELSE <<UserBlock(pairs[1][1]), AssistantBlock(pairs[1][2])>>
         \o TurnBlocks(Tail(pairs))

\* faulty variant: the bare assistant marker (line 89) is not appended
PromptPartsNoMarker(p) ==
    TurnBlocks(zip(p.past_user_inputs, p.generated_responses))
    \o <<UserBlock(p.text)>>

PromptParts(p) ==
    TurnBlocks(zip(p.past_user_inputs, p.generated_responses))
    \o <<UserBlock(p.text), <<AssistantMarker>> >>

ChatPrompt(p) == join(PromptParts(p), "\n")

ChatReply(json) ==
    IF Truthy(json) /\ IsList(json)
    THEN GeneratedText(json)
    ELSE Return(Placeholder)

\* the try block of chat
ChatTry(answer) ==
    LET response_data == query_huggingface(answer) IN
    IF response_data.raised THEN response_data
    ELSE ChatReply(response_data.value)

ChatErrorStatus(e) == HTTP_INTERNAL_ERROR

ChatResponse(answer) ==
    LET r == ChatTry(answer) IN
    IF r.raised
    THEN [status_code |-> ChatErrorStatus(r.exc), detail |-> ExcStr(r.exc),
          reply |-> <<>>]
    ELSE [status_code |-> HTTP_OK, detail |-> <<>>, reply |-> r.value]

----------------------------------------------------------------------------
(* POST /api/v1/smart-replies *)

\* A message is a Dict[str, str]: either key may be missing
Message(has_author, author, has_content, content) ==
    [has_author |-> has_author, author |-> author,
     has_content |-> has_content, content |-> content]

Contents ==
    {<<"S", "e", "e", " ", "y", "o", "u", " ", "a", "t", " ", "t", "h", "e", " ", "m", "e", "e", "t", "i", "n", "g", "?">>, <<"T", "h", "a", "n", "k", "s", " ", "f", "o", "r", " ", "t", "h", "e", " ", "M", "E", "E", "T", "I", "N", "G">>, <<"t", "h", "a", "n", "k", " ", "y", "o", "u">>,
     <<"M", "e", "e", "t", "i", "n", "g", " ", "a", "t", " ", "5">>, <<"o", "k">>}

Messages ==
    {Message(TRUE, <<"A", "l">>, TRUE, c) : c \in Contents}
    \cup {Message(TRUE, <<"A", "l">>, FALSE, <<>>)}

Users == {<<"B", "o", "b">>}

\* SmartReplyRequest: max_suggestions is validated to 1..5
SmartReplyRequest ==
    [recent_messages : UNION {[1..n -> Messages] : n \in 0..MaxMessages},
     current_user : Users,
     max_suggestions : MinSuggestions..MaxSuggestions]

RECURSIVE Rep(_, _)
Rep(c, n) == IF n = 0 THEN <<>> ELSE <<c>> \o Rep(c, n - 1)

TextLines ==
    {<<"1", ".", " ", "S", "u", "r", "e", " ", "t", "h", "i", "n", "g", "!">>, <<"2", ".", " ", "o", "k">>, <<"1", ".", " ", "-", " ", "t", "e", "x", "t", " ", "h", "e", "r", "e">>, <<" ", "*", " ", "a", "b", "c", "d", " ">>}

RECURSIVE ComposedTexts(_)
ComposedTexts(n) ==
    IF n = 0 THEN {<<>>}
    ELSE LET shorter == ComposedTexts(n - 1) IN
         shorter \cup TextLines
         \cup {t \o <<"\n">> \o l : t \in shorter \ {<<>>}, l \in TextLines}

GeneratedTexts ==
    ComposedTexts(MaxLines)
    \cup {<<"1", ".", " ", "S", "u", "r", "e", " ", "t", "h", "i", "n", "g", "!", "\n", "2", ".", " ", "o", "k", "\n", "-", " ", " ", "L", "e", "t", "'", "s", " ", "d", "o", " ", "i", "t", " ", "t", "o", "m", "o", "r", "r", "o", "w">>,
          <<"-", " ">> \o Rep("x", 99) \o <<"\n">> \o Rep("x", 100) \o <<"\n", "U+2022", " ", "a", "b", "c", "\n", "*", "a", "b", "c", "d">>,
          <<"H", "e", "l", "l", "o", " ", "t", "h", "e", "r", "e", "\n", "o", "k", "\n", "H", "e", "l", "l", "o", " ", "t", "h", "e", "r", "e", "\n", "S", "e", "e", " ", "y", "o", "u", "\n", "S", "o", "u", "n", "d", "s", " ", "f", "u", "n", "\n", "W", "h", "y", " ", "n", "o", "t", "?", "\n", "M", "a", "y", "b", "e", " ", "l", "a", "t", "e", "r">>,
          <<"1", ".", "2", ".", "3", ".", " ", "t", "e", "x", "t", "\n", "\n", "-", " ", "1", ".", " ", "t", "e", "x", "t">>,
          <<" ", " ", " ", "\n", "\t">>}

\* The bullet glyph is the one character written "U+2022" here.
Prefixes == <<<<"1", ".">>, <<"2", ".">>, <<"3", ".">>, <<"-">>, <<"*">>, <<"U+2022">>>>

\* for prefix in [...]: if line.startswith(prefix): line = line[len(prefix):].strip()
RECURSIVE StripPrefixes(_, _)
StripPrefixes(line, k) ==
    IF k > Len(Prefixes) THEN line
    ELSE StripPrefixes(
             IF startswith(line, Prefixes[k])
             THEN strip(SubSeq(line, Len(Prefixes[k]) + 1, Len(line)))
             ELSE line,
             k + 1)

CleanLine(raw) == StripPrefixes(strip(raw), 1)

\* faulty variant: the lower length bound is inclusive
AcceptableInclusive(line) ==
    line # <<>> /\ Len(line) >= MinLength /\ Len(line) < MaxLength

\* if line and len(line) > 3 and len(line) < 100
Acceptable(line) ==
    line # <<>> /\ Len(line) > MinLength /\ Len(line) < MaxLength

\* if len(suggestions) >= payload.max_suggestions: break
LoopBreaks(suggestions, max_suggestions) == Len(suggestions) >= max_suggestions

\* The loop over generated_text.split('\n'), from line i on: the suggestions
\* collected and the cleaned value of every line the loop looked at.
RECURSIVE ParseLines(_, _, _, _, _)
ParseLines(lines, i, suggestions, cleaned, max_suggestions) ==
    IF i > Len(lines)
    THEN [suggestions |-> suggestions, cleaned |-> cleaned]
    ELSE LET line == CleanLine(lines[i])
             collected == IF Acceptable(line)
                          THEN Append(suggestions, line)
                          ELSE suggestions
         IN  IF LoopBreaks(collected, max_suggestions)
             THEN [suggestions |-> collected, cleaned |-> Append(cleaned, line)]
             ELSE ParseLines(lines, i + 1, collected, Append(cleaned, line),
                             max_suggestions)

QuestionReplies == <<<<"T", "h", "a", "n", "k", "s", " ", "f", "o", "r", " ", "a", "s", "k", "i", "n", "g", "!">>, <<"L", "e", "t", " ", "m", "e", " ", "t", "h", "i", "n", "k", " ", "a", "b", "o", "u", "t", " ", "t", "h", "a", "t">>, <<"G", "o", "o", "d", " ", "q", "u", "e", "s", "t", "i", "o", "n", "!">>>>
ThanksReplies == <<<<"Y", "o", "u", "'", "r", "e", " ", "w", "e", "l", "c", "o", "m", "e", "!">>, <<"N", "o", " ", "p", "r", "o", "b", "l", "e", "m", "!">>, <<"H", "a", "p", "p", "y", " ", "t", "o", " ", "h", "e", "l", "p", "!">>>>
MeetingReplies == <<<<"S", "o", "u", "n", "d", "s", " ", "g", "o", "o", "d", "!">>, <<"I", "'", "l", "l", " ", "b", "e", " ", "t", "h", "e", "r", "e">>, <<"W", "h", "a", "t", " ", "t", "i", "m", "e", " ", "w", "o", "r", "k", "s", "?">>>>
DefaultReplies == <<<<"G", "o", "t", " ", "i", "t", "!">>, <<"M", "a", "k", "e", "s", " ", "s", "e", "n", "s", "e">>, <<"T", "h", "a", "n", "k", "s", " ", "f", "o", "r", " ", "t", "h", "e", " ", "u", "p", "d", "a", "t", "e">>>>
NoContextReplies == <<<<"H", "i", " ", "t", "h", "e", "r", "e", "!">>, <<"T", "h", "a", "n", "k", "s", "!">>, <<"S", "o", "u", "n", "d", "s", " ", "g", "o", "o", "d", "!">>>>
MalformedReplies == <<<<"T", "h", "a", "n", "k", "s", "!">>, <<"G", "o", "t", " ", "i", "t", "!">>, <<"S", "o", "u", "n", "d", "s", " ", "g", "o", "o", "d", "!">>>>
ErrorReplies == <<<<"T", "h", "a", "n", "k", "s", "!">>, <<"G", "o", "t", " ", "i", "t", "!">>, <<"L", "e", "t", " ", "m", "e", " ", "c", "h", "e", "c", "k", " ", "o", "n", " ", "t", "h", "a", "t">>>>

\* faulty variant: the "meeting" rule is tried before the "?" rule
ContextRepliesMeetingFirst(last_content) ==
    IF contains(last_content, <<"m", "e", "e", "t", "i", "n", "g">>) THEN MeetingReplies
    ELSE IF contains(last_content, <<"?">>) THEN QuestionReplies
    ELSE IF contains(last_content, <<"t", "h", "a", "n", "k", "s">>)
            \/ contains(last_content, <<"t", "h", "a", "n", "k", " ", "y", "o", "u">>) THEN ThanksReplies
    ELSE DefaultReplies

\* the if/elif chain over last_content
ContextReplies(last_content) ==
    IF contains(last_content, <<"?">>) THEN QuestionReplies
    ELSE IF contains(last_content, <<"t", "h", "a", "n", "k", "s">>)
            \/ contains(last_content, <<"t", "h", "a", "n", "k", " ", "y", "o", "u">>) THEN ThanksReplies
    ELSE IF contains(last_content, <<"m", "e", "e", "t", "i", "n", "g">>) THEN MeetingReplies
    ELSE DefaultReplies

\* payload.recent_messages[-1] if payload.recent_messages else None
LastMessage(recent_messages) == recent_messages[Len(recent_messages)]

\* faulty variant: the two branches of `if last_message` are exchanged
FallbackRepliesExchanged(recent_messages) ==
    IF recent_messages # <<>>
       /\ (LastMessage(recent_messages).has_author
           \/ LastMessage(recent_messages).has_content)
    THEN Return(NoContextReplies)
    ELSE Return(DefaultReplies)

\* The fallback taken when no suggestion was parsed
FallbackReplies(recent_messages) ==
    IF recent_messages # <<>>
       /\ (LastMessage(recent_messages).has_author
           \/ LastMessage(recent_messages).has_content)
    THEN IF LastMessage(recent_messages).has_content
         THEN Return(ContextReplies(lower(LastMessage(recent_messages).content)))
         ELSE Raise(Exc("KeyError", 0, <<"'content'">>))
    ELSE Return(NoContextReplies)

\* recent_context: "{author}: {content}" of each of the last 10 messages
RECURSIVE RecentContext(_)
RecentContext(msgs) ==
    IF msgs = <<>> THEN Return(<<>>)
    ELSE IF ~msgs[1].has_author THEN Raise(Exc("KeyError", 0, <<"'author'">>))
    ELSE IF ~msgs[1].has_content THEN Raise(Exc("KeyError", 0, <<"'content'">>))
    ELSE LET rest == RecentContext(Tail(msgs)) IN
         IF rest.raised THEN rest
         ELSE Return(<<msgs[1].author \o <<":", " ">> \o msgs[1].content>> \o rest.value)

SmartPrompt(current_user, conversation_context) ==
    <<UserMarker, "\nBased on this conversation, suggest 3 short, appropriate replies that ">>
    \o current_user
    \o <<" could send. \nMake them natural, contextual, and varied in tone (e.g., one professional, one casual, one question).\nEach reply should be on a new line and be concise (under 20 words).\n\nConversation:\n">>
    \o conversation_context
    \o <<"\n\nGenerate 3 reply suggestions for ">>
    \o current_user
    \o <<":", EndOfTurn, "\n", AssistantMarker>>

NoParse == [suggestions |-> <<>>, cleaned |-> <<>>]

\* What the try block did: how it ended, and its local variables
Tried(result, called, prompt, parse) ==
    [result |-> result, called |-> called, prompt |-> prompt, parse |-> parse]

\* the branch taken for a truthy list response (lines 157-191)
ParsedReplies(p, json, prompt) ==
    LET generated_text == GeneratedText(json) IN
    IF generated_text.raised
    THEN Tried(generated_text, TRUE, prompt, NoParse)
    ELSE LET parse == ParseLines(split(generated_text.value, "\n"), 1, <<>>, <<>>,
                                 p.max_suggestions)
             suggestions == IF parse.suggestions = <<>>
                            THEN FallbackReplies(p.recent_messages)
                            ELSE Return(parse.suggestions)
         IN  IF suggestions.raised
             THEN Tried(suggestions, TRUE, prompt, parse)
             ELSE Tried(Return(FirstN(suggestions.value, p.max_suggestions)),
                        TRUE, prompt, parse)

\* the else branch (line 195)
MalformedResult == Return(MalformedReplies)

\* the try block of generate_smart_replies
SmartTry(p, answer) ==
    LET recent_context == RecentContext(LastN(p.recent_messages, ContextWindow)) IN
    IF recent_context.raised
    THEN Tried(recent_context, FALSE, <<>>, NoParse)
    ELSE LET prompt == SmartPrompt(p.current_user, join(recent_context.value, "\n"))
             response_data == query_huggingface(answer)
         IN  IF response_data.raised
             THEN Tried(response_data, TRUE, prompt, NoParse)
             ELSE IF Truthy(response_data.value) /\ IsList(response_data.value)
             THEN ParsedReplies(p, response_data.value, prompt)
             ELSE Tried(MalformedResult, TRUE, prompt, NoParse)

\* faulty variant: except HTTPException
SmartCatchesHTTPOnly(e) == e.type = "HTTPException"

\* except Exception: every exception the try block raises is an Exception
SmartCatches(e) == TRUE

\* the except block (line 200)
ErrorResult == ErrorReplies

SmartResponse(tried) ==
    IF ~tried.result.raised
    THEN [status_code |-> HTTP_OK, suggestions |-> tried.result.value]
    ELSE IF SmartCatches(tried.result.exc)
    THEN [status_code |-> HTTP_OK, suggestions |-> ErrorResult]
    ELSE [status_code |-> HTTP_INTERNAL_ERROR, suggestions |-> <<>>]

----------------------------------------------------------------------------
NoPayload == [none |-> TRUE]
NoLocals == [none |-> TRUE]
NoResponse == [status_code |-> 0]

Init ==
    /\ endpoint = "idle"
    /\ payload = NoPayload
    /\ upstream = NoAnswer
    /\ locals = NoLocals
    /\ response = NoResponse

\* a chat request arrives and passes the request model
ReceiveChat ==
    /\ endpoint = "idle"
    /\ \E p \in ChatRequest : payload' = p
    /\ endpoint' = "chat"
    /\ UNCHANGED <<upstream, locals, response>>

chat ==
    /\ endpoint = "chat"
    /\ response = NoResponse
    /\ \E answer \in Answers(ChatTexts) :
          /\ upstream' = answer
          /\ locals' = [prompt_parts |-> PromptParts(payload),
                        prompt |-> ChatPrompt(payload),
                        called |-> TRUE]
          /\ response' = ChatResponse(answer)
    /\ UNCHANGED <<endpoint, payload>>

\* a smart-replies request arrives and passes the request model
ReceiveSmartReplies ==
    /\ endpoint = "idle"
    /\ \E p \in SmartReplyRequest : payload' = p
    /\ endpoint' = "smart-replies"
    /\ UNCHANGED <<upstream, locals, response>>

generate_smart_replies ==
    /\ endpoint = "smart-replies"
    /\ response = NoResponse
    /\ \E answer \in Answers(GeneratedTexts) :
          LET tried == SmartTry(payload, answer) IN
          /\ upstream' = IF tried.called THEN answer ELSE NoAnswer
          /\ locals' = [called |-> tried.called, prompt |-> tried.prompt,
                        cleaned |-> tried.parse.cleaned,
                        parsed |-> tried.parse.suggestions]
          /\ response' = SmartResponse(tried)
    /\ UNCHANGED <<endpoint, payload>>

Next == ReceiveChat \/ chat \/ ReceiveSmartReplies \/ generate_smart_replies

Spec == Init /\ [][Next]_vars

----------------------------------------------------------------------------
(* States the claims speak about *)

SmartDone == endpoint = "smart-replies" /\ response # NoResponse
ChatDone == endpoint = "chat" /\ response # NoResponse

\* the inference call was made and answered with status 200 and a JSON body
CallSucceeded ==
    /\ locals.called
    /\ upstream.transport_ok
    /\ upstream.status_code = HTTP_OK
    /\ upstream.json.type # "invalid"

\* the body is a non-empty list whose first record is a dict with a str or no
\* generated text
HasRecord ==
    /\ upstream.json.type = "list"
    /\ upstream.json.items # <<>>
    /\ upstream.json.items[1].is_dict
    /\ upstream.json.items[1].has_text => upstream.json.items[1].text_is_str

RecordText ==
    IF upstream.json.items[1].has_text
    THEN upstream.json.items[1].generated_text
    ELSE <<>>

EmptyBody == upstream.json.type \in {"null", "list", "dict"} /\ ~HasRecord
             /\ (upstream.json.type = "list" => upstream.json.items = <<>>)

IsPrefix(s, t) == Len(s) <= Len(t) /\ s = SubSeq(t, 1, Len(s))

ContextTiers == {QuestionReplies, ThanksReplies, MeetingReplies, DefaultReplies}

----------------------------------------------------------------------------
\* C1: every smart-replies response, whatever the inference call did, holds
\* at most max_suggestions suggestions.
C1_SuggestionsBounded ==
    SmartDone => Len(response.suggestions) <= payload.max_suggestions

\* C2: the smart-replies handler always ends, and ends with a normal response
\* that holds a list of suggestions: no error reaches the caller.
C2_SmartRepliesTotal ==
    endpoint = "smart-replies" =>
        IF response = NoResponse
        THEN ENABLED generate_smart_replies
        ELSE /\ response.status_code = HTTP_OK
             /\ DOMAIN response.suggestions = 1..Len(response.suggestions)
             /\ \A i \in DOMAIN response.suggestions :
                   response.suggestions[i] # <<>>

\* a message without its content key made the prompt assembly raise, and the
\* handler answered all the same
C2_Witness ==
    /\ SmartDone
    /\ ~locals.called
    /\ \E i \in DOMAIN payload.recent_messages :
          ~payload.recent_messages[i].has_content
    /\ response.status_code = HTTP_OK

\* C3: a non-success status S of the inference service reaches the caller of
\* the chat endpoint as an error with status S and the upstream message.
C3_ChatCarriesUpstreamStatus ==
    (ChatDone /\ upstream.transport_ok /\ upstream.status_code # HTTP_OK) =>
        /\ response.status_code = upstream.status_code
        /\ \E i \in DOMAIN response.detail : response.detail[i] = upstream.text

\* C4: a successful chat call replies with the trimmed generated text, or
\* with the placeholder when that text is empty or absent; never with "".
C4_ChatReplyNeverEmpty ==
    (ChatDone /\ response.status_code = HTTP_OK) =>
        /\ response.reply # <<>>
        /\ response.reply =
              IF HasRecord /\ strip(RecordText) # <<>>
              THEN strip(RecordText)
              ELSE Placeholder

C6_ContextFallbackRules ==
    (SmartDone /\ CallSucceeded /\ HasRecord /\ locals.parsed = <<>>
       /\ payload.recent_messages # <<>>) =>
        LET c == lower(payload.recent_messages[Len(payload.recent_messages)].content)
            M == payload.max_suggestions
            question == contains(c, <<"?">>)
            thanks == contains(c, <<"t", "h", "a", "n", "k", "s">>) \/ contains(c, <<"t", "h", "a", "n", "k", " ", "y", "o", "u">>)
            meeting == contains(c, <<"m", "e", "e", "t", "i", "n", "g">>)
        IN  /\ question => response.suggestions = FirstN(QuestionReplies, M)
            /\ (~question /\ thanks) =>
                  response.suggestions = FirstN(ThanksReplies, M)
            /\ (~question /\ ~thanks /\ meeting) =>
                  response.suggestions = FirstN(MeetingReplies, M)
            /\ (~question /\ ~thanks /\ ~meeting) =>
                  response.suggestions = FirstN(DefaultReplies, M)

\* the last message matches the "?" rule and the "meeting" rule, the message
\* before it matches the "thanks" rule: the "?" set is returned
C6_Witness ==
    /\ SmartDone /\ CallSucceeded /\ HasRecord /\ locals.parsed = <<>>
    /\ Len(payload.recent_messages) = 2
    /\ payload.recent_messages[1].content = <<"t", "h", "a", "n", "k", " ", "y", "o", "u">>
    /\ payload.recent_messages[2].content = <<"S", "e", "e", " ", "y", "o", "u", " ", "a", "t", " ", "t", "h", "e", " ", "m", "e", "e", "t", "i", "n", "g", "?">>
    /\ payload.max_suggestions = 3
    /\ response.suggestions = QuestionReplies

\* C7: a chat request whose two history lists differ in length is refused
\* with a client error; no prompt is built and no inference call is made.
C7_MismatchedHistoryRejected ==
    (ChatDone
       /\ Len(payload.past_user_inputs) # Len(payload.generated_responses)) =>
        /\ response.status_code \in 400..499
        /\ ~locals.called
        /\ locals.prompt = <<>>

\* C8: for L paired turns the prompt is the 2L+2 blocks user(i), assistant(i)
\* for each i in order, user(new text), bare assistant marker, with one line
\* break between two blocks; it is not empty and ends with the marker.
C8_PromptGrammar ==
    (ChatDone
       /\ Len(payload.past_user_inputs) = Len(payload.generated_responses)) =>
        LET L == Len(payload.past_user_inputs)
            block(k) ==
                IF k = 2 * L + 2 THEN <<"<|assistant|>">>
                ELSE IF k = 2 * L + 1
                THEN <<"<|user|>", "\n">> \o payload.text \o <<"</s>">>
                ELSE IF k % 2 = 1
                THEN <<"<|user|>", "\n">>
                     \o payload.past_user_inputs[(k + 1) \div 2] \o <<"</s>">>
                ELSE <<"<|assistant|>", "\n">>
                     \o payload.generated_responses[k \div 2] \o <<"</s>">>
            start[k \in 1..(2 * L + 3)] ==
                IF k = 1 THEN 1 ELSE start[k - 1] + Len(block(k - 1)) + 1
        IN  /\ Len(locals.prompt_parts) = 2 * L + 2
            /\ Len(locals.prompt) = start[2 * L + 3] - 2
            /\ \A k \in 1..(2 * L + 2) :
                  /\ locals.prompt_parts[k] = block(k)
                  /\ SubSeq(locals.prompt, start[k], start[k] + Len(block(k)) - 1)
                        = block(k)
                  /\ k < 2 * L + 2 =>
                        locals.prompt[start[k] + Len(block(k))] = "\n"
            /\ locals.prompt # <<>>
            /\ locals.prompt[Len(locals.prompt)] = "<|assistant|>"

\* a history of two paired turns
C8_Witness ==
    /\ ChatDone
    /\ Len(payload.past_user_inputs) = 2
    /\ Len(payload.generated_responses) = 2
    /\ Len(locals.prompt_parts) = 6
    /\ locals.prompt[Len(locals.prompt)] = AssistantMarker

\* the first list marker a line starts with, removed with the blanks after it
StripFirstMarker(line) ==
    IF \E k \in DOMAIN Prefixes : startswith(line, Prefixes[k])
    THEN LET k == CHOOSE j \in DOMAIN Prefixes : startswith(line, Prefixes[j])
         IN  strip(SubSeq(line, Len(Prefixes[k]) + 1, Len(line)))
    ELSE line

\* C9: every line the extraction looks at loses at most one leading list
\* marker; further markers stay in the line.
C9_OneMarkerStripped ==
    (SmartDone /\ CallSucceeded /\ HasRecord) =>
        LET lines == split(strip(RecordText), "\n") IN
        \A i \in DOMAIN locals.cleaned :
            locals.cleaned[i] = StripFirstMarker(strip(lines[i]))

\* C10: the extracted suggestions are the first max_suggestions, in order, of
\* the cleaned lines longer than 3 and shorter than 100; rejected lines are
\* skipped, duplicates kept, and a non-empty extraction is the response.
C10_FirstAcceptedLines ==
    (SmartDone /\ CallSucceeded /\ HasRecord) =>
        LET lines == split(strip(RecordText), "\n")
            clean == [i \in DOMAIN lines |-> CleanLine(lines[i])]
            ok(l) == Len(l) > 3 /\ Len(l) < 100
        IN  /\ locals.parsed = FirstN(SelectSeq(clean, ok), payload.max_suggestions)
            /\ locals.parsed # <<>> => response.suggestions = locals.parsed

\* seven lines, the second rejected, the first and third equal, two asked for
C10_Witness ==
    /\ SmartDone /\ CallSucceeded /\ HasRecord
    /\ Len(split(strip(RecordText), "\n")) = 7
    /\ payload.max_suggestions = 2
    /\ response.suggestions = <<<<"H", "e", "l", "l", "o", " ", "t", "h", "e", "r", "e">>, <<"H", "e", "l", "l", "o", " ", "t", "h", "e", "r", "e">>>>

====
